---- MODULE Spec2Model ----
(***************************************************************************)
(* django-tweet: tweet/models.py.                                          *)
(*                                                                         *)
(* The model covers the two tables (Tweet, User), the ingest function      *)
(* create_or_update_from_json, parse_datetime and the range query          *)
(* Tweet.get_created_in_range.                                             *)
(*                                                                         *)
(* Values.  A JSON value is either null, written None == <<>>, or a        *)
(* one-element tuple <<v>> holding the value.  A dict is a function whose  *)
(* DOMAIN is the set of keys that are present, so d[k] on a missing key    *)
(* (KeyError) and d.get(k) are different things, as in Python.             *)
(***************************************************************************)
EXTENDS Integers, Sequences, FiniteSets, TLC

VARIABLES
    tweets,             \* rows of the Tweet table
    users,              \* rows of the User table
    pc,                 \* sequential caller: "idle", "called", "returned"
    pending,            \* <<>> or <<[raw, save_rts]>>: the call being served
    again,              \* the pending call repeats the call before it
    result,             \* how the last call ended: "returned", "nothing",
                        \* or the exception it raised
    stage,              \* where the last call ended: "build" (before any
                        \* store access), "tweet", "user", "end"
    tweet_created,      \* local tweet_created of the last call (None: unset)
    user_created,       \* local user_created of the last call (None: unset)
    ingested_tweet_ids, \* history: tweet ids of the tweet upserts accepted
    ingested_user_ids,  \* history: user ids of the user upserts accepted
    before,             \* history: <<>> or <<[tweets, users]>>, the store
                        \* as the call just served found it
    query,              \* <<>> or <<[start, end, rows]>>: the last range query
    procs               \* concurrent callers (SpecConc only)

vars == <<tweets, users, pc, pending, again, result, stage,
          tweet_created, user_created, ingested_tweet_ids, ingested_user_ids,
          before, query, procs>>

\* ------------------------------------------------------------------ bounds

MaxTweetId == 2
MaxCount == 1
MaxTime == 2

TweetIds == 1..MaxTweetId
UserIds == {1, 2}
Times == 1..MaxTime

\* ------------------------------------------------------------------ values

None == <<>>

Get(d, k) == IF k \in DOMAIN d THEN d[k] ELSE None

\* Python truthiness of a JSON integer or null.
Truthy(v) == v # None /\ v[1] # 0

\* d without key k
DropKey(d, k) == [x \in DOMAIN d \ {k} |-> d[x]]

\* d with key k set to v (added when missing)
SetKey(d, k, v) == [x \in DOMAIN d \cup {k} |-> IF x = k THEN v ELSE d[x]]

\* ------------------------------------------------------------------ schema

TweetFields ==
    {"tweet_id", "text", "truncated", "user_id", "created_at", "filter_level",
     "reply_count", "favorite_count", "retweet_count",
     "in_reply_to_status_id", "retweeted_status_id", "entities"}

\* Tweet columns declared without null=True
TweetNotNull == {"tweet_id", "text", "truncated", "user_id", "created_at"}

UserFields ==
    {"user_id", "name", "screen_name", "location", "url", "description",
     "protected", "verified", "followers_count", "friends_count",
     "listed_count", "favourites_count", "statuses_count", "created_at",
     "profile_banner_url", "profile_image_url_https", "default_profile",
     "default_profile_image", "entities"}

\* User columns declared without null=True (NullBooleanField is nullable)
UserNotNull ==
    {"user_id", "name", "screen_name", "location", "description", "created_at"}

TweetCountKeys == {"reply_count", "favorite_count", "retweet_count"}

UserCountKeys ==
    {"favourites_count", "followers_count", "friends_count", "listed_count",
     "statuses_count"}

\* ------------------------------------------------------------ parse_datetime

\* email.utils.parsedate: None for a string that is no RFC-2822 date (or for
\* null), else the date-time components; the zone offset is not among them.
parsedate(v) ==
    IF v = None THEN None
    ELSE IF v[1].form # "rfc2822" THEN None
    ELSE <<v[1].wall>>

\* USE_TZ = getattr(settings, "USE_TZ", True)
USE_TZ == TRUE

\* parse_datetime raises TypeError when parsedate returned None (None[:6]).
ParseFails(v) == parsedate(v) = None

parse_datetime(v, use_tz) ==
    <<[wall |-> parsedate(v)[1],
       tzinfo |-> IF use_tz THEN "current_timezone" ELSE "naive"]>>

\* ------------------------------------------------------------------- store

\* A table is a set of rows; a row has the auto-increment primary key "id"
\* and the mapped fields.
NextPk(table) ==
    IF table = {} THEN 1
    ELSE 1 + (CHOOSE m \in {r.id : r \in table} :
                  \A r \in table : r.id <= m)

Row(pk, fields) ==
    [x \in DOMAIN fields \cup {"id"} |-> IF x = "id" THEN pk ELSE fields[x]]

\* Faulty variant of Lookup: the lookup goes by the primary key.
LookupByPk(table, key_field, key) == {r \in table : <<r.id>> = key}

\* objects.get(key_field=key): the rows the lookup matches
Lookup(table, key_field, key) == {r \in table : r[key_field] = key}

\* A NULL written to a column declared without null=True
NotNullViolated(fields, not_null) == \E f \in not_null : fields[f] = None

\* Faulty variant of InsertError: the key column is not declared unique.
InsertErrorNoUnique(table, key_field, fields, not_null) ==
    IF NotNullViolated(fields, not_null) THEN "IntegrityError" ELSE "ok"

\* INSERT under the schema: NOT NULL columns, and unique=True on key_field.
InsertError(table, key_field, fields, not_null) ==
    IF NotNullViolated(fields, not_null) THEN "IntegrityError"
    ELSE IF Lookup(table, key_field, fields[key_field]) # {}
         THEN "IntegrityError"
    ELSE "ok"

Insert(table, fields) == table \cup {Row(NextPk(table), fields)}

\* Faulty variant of SetAttrs: a merge, null values are not copied.
SetAttrsMerge(obj, defaults) ==
    [x \in DOMAIN obj |->
        IF x \in DOMAIN defaults /\ defaults[x] # None THEN defaults[x]
        ELSE obj[x]]

\* for k, v in defaults.items(): setattr(obj, k, v)
SetAttrs(obj, defaults) ==
    [x \in DOMAIN obj |-> IF x \in DOMAIN defaults THEN defaults[x] ELSE obj[x]]

\* obj.save(): UPDATE of every column of the row whose primary key is obj.id
SaveError(obj, not_null) ==
    IF NotNullViolated(obj, not_null) THEN "IntegrityError" ELSE "ok"

Save(table, obj) == {r \in table : r.id # obj.id} \cup {obj}

\* Faulty variant of Upsert: create() in place of get_or_create(), on a
\* key column that is not unique.
UpsertAlwaysCreate(table, key_field, defaults, not_null) ==
    IF NotNullViolated(defaults, not_null)
    THEN [table |-> table, created |-> None, error |-> "IntegrityError"]
    ELSE [table |-> Insert(table, defaults), created |-> <<TRUE>>,
          error |-> "ok"]

\* get_or_create(key_field=key, defaults=defaults) followed by the
\* "if not created" overwrite, run without interruption.
Upsert(table, key_field, defaults, not_null) ==
    LET found == Lookup(table, key_field, defaults[key_field]) IN
    IF Cardinality(found) > 1
    THEN [table |-> table, created |-> None,
          error |-> "MultipleObjectsReturned"]
    ELSE IF found = {}
    THEN IF InsertError(table, key_field, defaults, not_null) # "ok"
         THEN [table |-> table, created |-> None,
               error |-> InsertError(table, key_field, defaults, not_null)]
         ELSE [table |-> Insert(table, defaults), created |-> <<TRUE>>,
               error |-> "ok"]
    ELSE LET obj == SetAttrs(CHOOSE r \in found : TRUE, defaults) IN
         IF SaveError(obj, not_null) # "ok"
         THEN [table |-> table, created |-> <<FALSE>>,
               error |-> SaveError(obj, not_null)]
         ELSE [table |-> Save(table, obj), created |-> <<FALSE>>,
               error |-> "ok"]

\* -------------------------------------------------- create_or_update_from_json

\* retweeted_status = raw.get("retweeted_status"), {"id": None} when None
RetweetedStatus(raw) ==
    IF Get(raw, "retweeted_status") = None THEN [id |-> None]
    ELSE raw.retweeted_status[1]

\* Faulty variant of SkipStage: raw["user"] is read after the early return.
SkipStageLate(raw, save_rts) ==
    IF /\ ~save_rts
       /\ "id" \in DOMAIN RetweetedStatus(raw)
       /\ Truthy(RetweetedStatus(raw).id)
    THEN "nothing"
    ELSE IF "user" \notin DOMAIN raw THEN "KeyError"
    ELSE IF ~save_rts /\ "id" \notin DOMAIN RetweetedStatus(raw)
         THEN "KeyError"
    ELSE "continue"

\* raw["user"], then: if save_rts is False and retweeted_status["id"]: return
SkipStage(raw, save_rts) ==
    IF "user" \notin DOMAIN raw THEN "KeyError"
    ELSE IF save_rts THEN "continue"
    ELSE IF "id" \notin DOMAIN RetweetedStatus(raw) THEN "KeyError"
    ELSE IF Truthy(RetweetedStatus(raw).id) THEN "nothing"
    ELSE "continue"

\* Faulty variant of NoNegative: the count is stored as it came.
NoNegativeKept(v) == v

\* if counts[key] is not None and counts[key] < 0: counts[key] = None
NoNegative(v) == IF v # None /\ v[1] < 0 THEN None ELSE v

counts(raw) == [key \in TweetCountKeys |-> NoNegative(Get(raw, key))]

user_counts(raw_user) ==
    [key \in UserCountKeys |-> NoNegative(Get(raw_user, key))]

\* raw_user.get on a null user object
CountsError(raw) == IF raw.user = None THEN "AttributeError" ELSE "ok"

\* The first exception raised while tweet_defaults is built, in the order of
\* its keyword arguments.
TweetDefaultsError(raw) ==
    LET raw_user == raw.user[1] IN
    IF "id" \notin DOMAIN raw THEN "KeyError"
    ELSE IF "text" \notin DOMAIN raw THEN "KeyError"
    ELSE IF "truncated" \notin DOMAIN raw THEN "KeyError"
    ELSE IF "id" \notin DOMAIN raw_user THEN "KeyError"
    ELSE IF "created_at" \notin DOMAIN raw THEN "KeyError"
    ELSE IF ParseFails(raw.created_at) THEN "TypeError"
    ELSE IF "id" \notin DOMAIN RetweetedStatus(raw) THEN "KeyError"
    ELSE "ok"

tweet_defaults(raw, use_tz) ==
    [tweet_id |-> raw.id,
     text |-> raw.text,
     truncated |-> raw.truncated,
     user_id |-> raw.user[1].id,
     created_at |-> parse_datetime(raw.created_at, use_tz),
     filter_level |-> Get(raw, "filter_level"),
     reply_count |-> counts(raw)["reply_count"],
     favorite_count |-> counts(raw)["favorite_count"],
     retweet_count |-> counts(raw)["retweet_count"],
     in_reply_to_status_id |-> Get(raw, "in_reply_to_status_id"),
     retweeted_status_id |-> RetweetedStatus(raw).id,
     entities |-> Get(raw, "entities")]

UserRequiredKeys ==
    <<"id", "name", "screen_name", "location", "url", "description",
      "protected", "verified">>

\* The first exception raised while user_defaults is built.
UserDefaultsError(raw) ==
    LET raw_user == raw.user[1] IN
    IF \E i \in 1..Len(UserRequiredKeys) :
           UserRequiredKeys[i] \notin DOMAIN raw_user
    THEN "KeyError"
    ELSE IF "created_at" \notin DOMAIN raw_user THEN "KeyError"
    ELSE IF ParseFails(raw_user.created_at) THEN "TypeError"
    ELSE "ok"

user_defaults(raw, use_tz) ==
    LET raw_user == raw.user[1] IN
    [user_id |-> raw_user.id,
     name |-> raw_user.name,
     screen_name |-> raw_user.screen_name,
     location |-> raw_user.location,
     url |-> raw_user.url,
     description |-> raw_user.description,
     protected |-> raw_user.protected,
     verified |-> raw_user.verified,
     followers_count |-> user_counts(raw_user)["followers_count"],
     friends_count |-> user_counts(raw_user)["friends_count"],
     listed_count |-> user_counts(raw_user)["listed_count"],
     favourites_count |-> user_counts(raw_user)["favourites_count"],
     statuses_count |-> user_counts(raw_user)["statuses_count"],
     created_at |-> parse_datetime(raw_user.created_at, use_tz),
     profile_banner_url |-> Get(raw_user, "profile_banner_url"),
     profile_image_url_https |-> Get(raw_user, "profile_image_url_https"),
     default_profile |-> Get(raw_user, "default_profile"),
     default_profile_image |-> Get(raw_user, "default_profile_image"),
     entities |-> Get(raw_user, "entities")]

\* The first exception raised before the first store access, "nothing" for
\* the early return, "ok" when both field-sets are built.
BuildStage(raw, save_rts) ==
    IF SkipStage(raw, save_rts) # "continue" THEN SkipStage(raw, save_rts)
    ELSE IF CountsError(raw) # "ok" THEN CountsError(raw)
    ELSE IF TweetDefaultsError(raw) # "ok" THEN TweetDefaultsError(raw)
    ELSE UserDefaultsError(raw)

\* Faulty variant of WriteStage: both upserts in one transaction, so a
\* failure of the second rolls the first back.
WriteStageAtomic(T, U, raw, use_tz) ==
    LET t == Upsert(T, "tweet_id", tweet_defaults(raw, use_tz), TweetNotNull)
    IN  IF t.error # "ok"
        THEN [tweets |-> T, users |-> U, result |-> t.error,
              stage |-> "tweet",
              tweet_created |-> t.created, user_created |-> None]
        ELSE LET u == Upsert(U, "user_id", user_defaults(raw, use_tz),
                             UserNotNull)
             IN  IF u.error # "ok"
                 THEN [tweets |-> T, users |-> U, result |-> u.error,
                       stage |-> "user",
                       tweet_created |-> t.created,
                       user_created |-> u.created]
                 ELSE [tweets |-> t.table, users |-> u.table,
                       result |-> "returned", stage |-> "end",
                       tweet_created |-> t.created,
                       user_created |-> u.created]

\* The two upserts, tweet first; an exception of the first ends the call.
WriteStage(T, U, raw, use_tz) ==
    LET t == Upsert(T, "tweet_id", tweet_defaults(raw, use_tz), TweetNotNull)
    IN  IF t.error # "ok"
        THEN [tweets |-> T, users |-> U, result |-> t.error,
              stage |-> "tweet",
              tweet_created |-> t.created, user_created |-> None]
        ELSE LET u == Upsert(U, "user_id", user_defaults(raw, use_tz),
                             UserNotNull)
             IN  IF u.error # "ok"
                 THEN [tweets |-> t.table, users |-> U, result |-> u.error,
                       stage |-> "user",
                       tweet_created |-> t.created,
                       user_created |-> u.created]
                 ELSE [tweets |-> t.table, users |-> u.table,
                       result |-> "returned", stage |-> "end",
                       tweet_created |-> t.created,
                       user_created |-> u.created]

\* Faulty variant of create_or_update_from_json: the tweet is upserted as
\* soon as tweet_defaults is built, before user_defaults is.
create_or_update_from_json_eager(T, U, raw, save_rts, use_tz) ==
    IF SkipStage(raw, save_rts) # "continue"
    THEN [tweets |-> T, users |-> U, result |-> SkipStage(raw, save_rts),
          stage |-> "build", tweet_created |-> None, user_created |-> None]
    ELSE IF CountsError(raw) # "ok" \/ TweetDefaultsError(raw) # "ok"
    THEN [tweets |-> T, users |-> U, result |-> BuildStage(raw, save_rts),
          stage |-> "build", tweet_created |-> None, user_created |-> None]
    ELSE IF UserDefaultsError(raw) # "ok"
    THEN LET t == Upsert(T, "tweet_id", tweet_defaults(raw, use_tz),
                         TweetNotNull)
         IN  [tweets |-> t.table, users |-> U,
              result |-> IF t.error # "ok" THEN t.error
                         ELSE UserDefaultsError(raw),
              stage |-> "build",
              tweet_created |-> t.created, user_created |-> None]
    ELSE WriteStage(T, U, raw, use_tz)

\* The whole function on store (T, U): the store it leaves and how it ends.
create_or_update_from_json(T, U, raw, save_rts, use_tz) ==
    IF BuildStage(raw, save_rts) # "ok"
    THEN [tweets |-> T, users |-> U, result |-> BuildStage(raw, save_rts),
          stage |-> "build",
          tweet_created |-> None, user_created |-> None]
    ELSE WriteStage(T, U, raw, use_tz)

\* ------------------------------------------------------------------ inputs

Texts == {"hi", "hi edited"}

Offsets == {"+0000", "+0900"}

\* An RFC-2822 date string: its date-time components and its zone offset.
DateString(t, off) == <<[form |-> "rfc2822", wall |-> t, offset |-> off]>>

\* A string email.utils.parsedate cannot parse.
GarbageDate == <<[form |-> "garbage", wall |-> 0, offset |-> ""]>>

BaseUser(uid) ==
    [id |-> <<uid>>, name |-> <<"A">>, screen_name |-> <<"a">>,
     location |-> <<"">>, url |-> None, description |-> <<"">>,
     protected |-> <<FALSE>>, verified |-> <<FALSE>>,
     created_at |-> DateString(1, "+0000")]

BaseStatus(id, uid, text) ==
    [id |-> <<id>>, text |-> <<text>>, truncated |-> <<FALSE>>,
     created_at |-> DateString(1, "+0000"), user |-> <<BaseUser(uid)>>]

WithUser(raw, k, v) == SetKey(raw, "user", <<SetKey(raw.user[1], k, v)>>)

WithoutUserKey(raw, k) == SetKey(raw, "user", <<DropKey(raw.user[1], k)>>)

\* Well-formed originals: every tweet id, user id and text.
CoreStatuses ==
    {BaseStatus(i, u, t) : i \in TweetIds, u \in UserIds, t \in Texts}

\* The values of raw["retweeted_status"]: null, a dict without "id", a dict
\* whose id is null, 0 or a tweet id.
RetweetedValues ==
    {None, << <<>> >>, <<[id |-> None]>>}
        \cup {<<[id |-> <<k>>]>> : k \in 0..MaxTweetId}

RetweetStatuses ==
    {SetKey(BaseStatus(1, 1, "hi"), "retweeted_status", rs) :
        rs \in RetweetedValues}

\* The two statuses the malformed inputs are cut from: an original and a
\* retweet.
Bases ==
    {BaseStatus(1, 1, "hi"),
     SetKey(BaseStatus(1, 1, "hi"), "retweeted_status", <<[id |-> <<1>>]>>)}

TweetRequiredKeys == {"user", "id", "text", "truncated", "created_at"}

\* One required key missing, a date that does not parse, a null user.
MalformedStatuses ==
    {DropKey(b, k) : b \in Bases, k \in TweetRequiredKeys}
        \cup {WithoutUserKey(b, UserRequiredKeys[i]) :
                b \in Bases, i \in 1..Len(UserRequiredKeys)}
        \cup {WithoutUserKey(b, "created_at") : b \in Bases}
        \cup {SetKey(b, "created_at", d) : b \in Bases, d \in {GarbageDate, None}}
        \cup {WithUser(b, "created_at", GarbageDate) : b \in Bases}
        \cup {SetKey(b, "user", None) : b \in Bases}

\* Every key present, a null where the column takes none.
NullStatuses ==
    {SetKey(BaseStatus(i, 1, "hi"), k, None) :
        i \in TweetIds, k \in {"id", "text", "truncated"}}
        \cup {WithUser(BaseStatus(i, 1, "hi"), k, None) :
                i \in TweetIds, k \in UserNotNull \ {"user_id", "created_at"}}
        \cup {WithUser(BaseStatus(i, 1, "hi"), "id", None) : i \in TweetIds}

\* The statuses of Spec: well-formed originals and retweets, and statuses
\* the store refuses.
Statuses == CoreStatuses \cup RetweetStatuses \cup NullStatuses

\* The statuses of SpecMalformed.
BrokenStatuses ==
    {BaseStatus(i, 1, "hi") : i \in TweetIds} \cup MalformedStatuses

\* A count as the feed gives it: null or an integer, negative ones included.
CountValues == {None} \cup {<<c>> : c \in (-MaxCount)..MaxCount}

TweetOptionalValues ==
    [filter_level |-> <<"low">>, in_reply_to_status_id |-> <<1>>,
     entities |-> <<"{hashtags}">>]

UserOptionalValues ==
    [url |-> <<"http://a">>, profile_banner_url |-> <<"http://b">>,
     profile_image_url_https |-> <<"https://i">>,
     default_profile |-> <<TRUE>>, default_profile_image |-> <<TRUE>>,
     entities |-> <<"{url}">>]

\* The statuses of SpecFields: one tweet and one user, with every text, and
\* each count and each optional field set in turn.
FieldStatuses ==
    {BaseStatus(1, 1, t) : t \in Texts}
        \cup {SetKey(BaseStatus(1, 1, "hi"), k, v) :
                k \in TweetCountKeys, v \in CountValues}
        \cup {WithUser(BaseStatus(1, 1, "hi"), k, v) :
                k \in UserCountKeys, v \in CountValues}
        \cup {SetKey(BaseStatus(1, 1, "hi"), k, TweetOptionalValues[k]) :
                k \in DOMAIN TweetOptionalValues}
        \cup {WithUser(BaseStatus(1, 1, "hi"), k, UserOptionalValues[k]) :
                k \in DOMAIN UserOptionalValues}
        \cup {WithUser(BaseStatus(1, 1, "hi"), "name", <<"B">>)}

\* The statuses of SpecQuery: every tweet id at every creation time, the
\* date written with either zone offset.
DatedStatuses ==
    {SetKey(BaseStatus(i, 1, "hi"), "created_at", DateString(t, off)) :
        i \in TweetIds, t \in Times, off \in Offsets}

\* The instants a range query is asked for.
QueryTimes == 0..(MaxTime + 1)

\* ----------------------------------------------------------------- history

\* What a call is expected to store, said of its input alone: the call is
\* not skipped, every key the function reads is there, both dates parse and
\* the tweet's (the user's) NOT NULL columns get a value.
Skipped(raw, save_rts) ==
    /\ ~save_rts
    /\ "id" \in DOMAIN RetweetedStatus(raw)
    /\ Truthy(RetweetedStatus(raw).id)

Readable(raw) ==
    /\ TweetRequiredKeys \subseteq DOMAIN raw
    /\ raw.user # None
    /\ "id" \in DOMAIN RetweetedStatus(raw)
    /\ {"id", "name", "screen_name", "location", "url", "description",
        "protected", "verified", "created_at"} \subseteq DOMAIN raw.user[1]
    /\ ~ParseFails(raw.created_at)
    /\ ~ParseFails(raw.user[1].created_at)

TweetStorable(raw) ==
    /\ Readable(raw)
    /\ \A k \in {"id", "text", "truncated"} : raw[k] # None
    /\ raw.user[1].id # None

UserStorable(raw) ==
    /\ Readable(raw)
    /\ \A k \in {"id", "name", "screen_name", "location", "description"} :
           raw.user[1][k] # None

\* ----------------------------------------------------------------- actions

InitStore ==
    /\ tweets = {}
    /\ users = {}
    /\ ingested_tweet_ids = {}
    /\ ingested_user_ids = {}

InitCaller ==
    /\ pc = "idle"
    /\ pending = <<>>
    /\ again = FALSE
    /\ result = "none"
    /\ stage = "none"
    /\ tweet_created = None
    /\ user_created = None
    /\ before = <<>>

Init == InitStore /\ InitCaller /\ query = <<>> /\ procs = <<>>

\* The caller passes a parsed status and the flag.
Call(raw, save_rts) ==
    /\ pc = "idle"
    /\ pc' = "called"
    /\ pending' = <<[raw |-> raw, save_rts |-> save_rts]>>
    /\ again' = FALSE
    /\ query' = <<>>
    /\ UNCHANGED <<tweets, users, result, stage, tweet_created,
                   user_created, ingested_tweet_ids, ingested_user_ids,
                   before, procs>>

\* create_or_update_from_json(raw, save_rts) from its first line to its
\* return or the exception that leaves it.
Run ==
    /\ pc = "called"
    /\ LET raw == pending[1].raw
           save_rts == pending[1].save_rts
           out == create_or_update_from_json(tweets, users, raw, save_rts,
                                             USE_TZ)
       IN  /\ tweets' = out.tweets
           /\ users' = out.users
           /\ result' = out.result
           /\ stage' = out.stage
           /\ tweet_created' = out.tweet_created
           /\ user_created' = out.user_created
           /\ ingested_tweet_ids' =
                 IF ~Skipped(raw, save_rts) /\ TweetStorable(raw)
                 THEN ingested_tweet_ids \cup {raw.id[1]}
                 ELSE ingested_tweet_ids
           /\ ingested_user_ids' =
                 IF /\ ~Skipped(raw, save_rts)
                    /\ TweetStorable(raw)
                    /\ UserStorable(raw)
                 THEN ingested_user_ids \cup {raw.user[1].id[1]}
                 ELSE ingested_user_ids
    /\ before' = <<[tweets |-> tweets, users |-> users]>>
    /\ pc' = "returned"
    /\ UNCHANGED <<pending, again, query, procs>>

\* The caller is done with the status and with what the call gave back.
Return ==
    /\ pc = "returned"
    /\ pc' = "idle"
    /\ pending' = <<>>
    /\ again' = FALSE
    /\ result' = "none"
    /\ stage' = "none"
    /\ tweet_created' = None
    /\ user_created' = None
    /\ before' = <<>>
    /\ UNCHANGED <<tweets, users, ingested_tweet_ids,
                   ingested_user_ids, query, procs>>

\* The caller passes the same status and flag once more, right away.
Reingest ==
    /\ pc = "returned"
    /\ ~again
    /\ pc' = "called"
    /\ again' = TRUE
    /\ before' = <<>>
    /\ UNCHANGED <<tweets, users, pending, result, stage,
                   tweet_created, user_created, ingested_tweet_ids,
                   ingested_user_ids, query, procs>>

Ingest == \E raw \in Statuses, save_rts \in BOOLEAN : Call(raw, save_rts)

Next == Ingest \/ Run \/ Return \/ Reingest

Spec == Init /\ [][Next]_vars

IngestBroken ==
    \E raw \in BrokenStatuses, save_rts \in BOOLEAN : Call(raw, save_rts)

NextMalformed == IngestBroken \/ Run \/ Return \/ Reingest

SpecMalformed == Init /\ [][NextMalformed]_vars

IngestFields ==
    \E raw \in FieldStatuses, save_rts \in BOOLEAN : Call(raw, save_rts)

NextFields == IngestFields \/ Run \/ Return \/ Reingest

SpecFields == Init /\ [][NextFields]_vars

\* ------------------------------------------------------------------- queries

\* The creation instant of a row, on the scale start and end are given on.
CreatedAt(r) == r.created_at[1].wall

\* Faulty variant of get_created_in_range: created_at__lte=end.
get_created_in_range_closed(T, start, end) ==
    {r \in T : CreatedAt(r) >= start /\ CreatedAt(r) <= end}

\* cls.objects.filter(created_at__gte=start, created_at__lt=end)
get_created_in_range(T, start, end) ==
    {r \in T : CreatedAt(r) >= start /\ CreatedAt(r) < end}

RangeQuery(start, end) ==
    /\ pc = "idle"
    /\ query' = <<[start |-> start, end |-> end,
                   rows |-> get_created_in_range(tweets, start, end)]>>
    /\ UNCHANGED <<tweets, users, pc, pending, again, result, stage,
                   tweet_created, user_created, ingested_tweet_ids,
                   ingested_user_ids, before, procs>>

IngestDated == \E raw \in DatedStatuses : Call(raw, TRUE)

Range == \E start \in QueryTimes, end \in QueryTimes : RangeQuery(start, end)

NextQuery == IngestDated \/ Run \/ Return \/ Range

SpecQuery == Init /\ [][NextQuery]_vars

\* ------------------------------------------------------- concurrent callers

\* Two callers run create_or_update_from_json at once.  Each store statement
\* (a lookup, an INSERT, an UPDATE) is one step.  get_or_create looks the
\* key up, creates when the lookup finds nothing and, when the INSERT is
\* refused by the unique constraint, looks the key up again and answers
\* "not created"; the function then overwrites and saves.
Procs == {1, 2}

ConcStatuses == {BaseStatus(i, u, t) : i \in TweetIds, u \in {1}, t \in Texts}

InitConc ==
    /\ InitStore
    /\ InitCaller
    /\ query = <<>>
    /\ procs = [p \in Procs |->
                  [pc |-> "idle", raw |-> None, obj |-> None,
                   tweet_created |-> None, user_created |-> None,
                   rejected |-> {}, saved |-> {}]]

ConcUnchanged ==
    UNCHANGED <<pc, pending, again, result, stage, tweet_created,
                user_created, ingested_tweet_ids, ingested_user_ids, before,
                query>>

\* The call, up to the first store access: both field-sets are built.
Start(p, raw) ==
    /\ procs[p].pc = "idle"
    /\ BuildStage(raw, TRUE) = "ok"
    /\ procs' = [procs EXCEPT ![p].pc = "tweet_get", ![p].raw = <<raw>>]
    /\ UNCHANGED <<tweets, users>>
    /\ ConcUnchanged

\* Tweet.objects.get(tweet_id=raw["id"]) inside get_or_create
TweetGet(p) ==
    /\ procs[p].pc \in {"tweet_get", "tweet_refetch"}
    /\ LET found == Lookup(tweets, "tweet_id", procs[p].raw[1].id) IN
       IF found = {}
       THEN procs' = [procs EXCEPT ![p].pc =
                         IF procs[p].pc = "tweet_get" THEN "tweet_create"
                         ELSE "failed"]
       ELSE procs' = [procs EXCEPT ![p].pc = "tweet_save",
                                   ![p].obj = <<CHOOSE r \in found : TRUE>>,
                                   ![p].tweet_created = <<FALSE>>]
    /\ UNCHANGED <<tweets, users>>
    /\ ConcUnchanged

\* Tweet.objects.create(**tweet_defaults) inside get_or_create
TweetCreate(p) ==
    /\ procs[p].pc = "tweet_create"
    /\ LET fields == tweet_defaults(procs[p].raw[1], USE_TZ) IN
       IF InsertError(tweets, "tweet_id", fields, TweetNotNull) = "ok"
       THEN /\ tweets' = Insert(tweets, fields)
            /\ procs' = [procs EXCEPT ![p].pc = "user_get",
                                      ![p].tweet_created = <<TRUE>>]
       ELSE /\ tweets' = tweets
            /\ procs' = [procs EXCEPT ![p].pc = "tweet_refetch",
                                      ![p].rejected = @ \cup {"tweet"}]
    /\ UNCHANGED users
    /\ ConcUnchanged

\* setattr over tweet_defaults, then tweet.save()
TweetSave(p) ==
    /\ procs[p].pc = "tweet_save"
    /\ tweets' = Save(tweets,
                      SetAttrs(procs[p].obj[1],
                               tweet_defaults(procs[p].raw[1], USE_TZ)))
    /\ procs' = [procs EXCEPT ![p].pc = "user_get", ![p].obj = None,
                              ![p].saved = @ \cup {"tweet"}]
    /\ UNCHANGED users
    /\ ConcUnchanged

\* User.objects.get(user_id=raw_user["id"]) inside get_or_create
UserGet(p) ==
    /\ procs[p].pc \in {"user_get", "user_refetch"}
    /\ LET found == Lookup(users, "user_id", procs[p].raw[1].user[1].id) IN
       IF found = {}
       THEN procs' = [procs EXCEPT ![p].pc =
                         IF procs[p].pc = "user_get" THEN "user_create"
                         ELSE "failed"]
       ELSE procs' = [procs EXCEPT ![p].pc = "user_save",
                                   ![p].obj = <<CHOOSE r \in found : TRUE>>,
                                   ![p].user_created = <<FALSE>>]
    /\ UNCHANGED <<tweets, users>>
    /\ ConcUnchanged

\* User.objects.create(**user_defaults) inside get_or_create
UserCreate(p) ==
    /\ procs[p].pc = "user_create"
    /\ LET fields == user_defaults(procs[p].raw[1], USE_TZ) IN
       IF InsertError(users, "user_id", fields, UserNotNull) = "ok"
       THEN /\ users' = Insert(users, fields)
            /\ procs' = [procs EXCEPT ![p].pc = "done",
                                      ![p].user_created = <<TRUE>>]
       ELSE /\ users' = users
            /\ procs' = [procs EXCEPT ![p].pc = "user_refetch",
                                      ![p].rejected = @ \cup {"user"}]
    /\ UNCHANGED tweets
    /\ ConcUnchanged

\* setattr over user_defaults, then user.save()
UserSave(p) ==
    /\ procs[p].pc = "user_save"
    /\ users' = Save(users,
                     SetAttrs(procs[p].obj[1],
                              user_defaults(procs[p].raw[1], USE_TZ)))
    /\ procs' = [procs EXCEPT ![p].pc = "done", ![p].obj = None,
                              ![p].saved = @ \cup {"user"}]
    /\ UNCHANGED tweets
    /\ ConcUnchanged

StartAny == \E p \in Procs, raw \in ConcStatuses : Start(p, raw)

TweetStep == \E p \in Procs : TweetGet(p) \/ TweetCreate(p) \/ TweetSave(p)

UserStep == \E p \in Procs : UserGet(p) \/ UserCreate(p) \/ UserSave(p)

NextConc == StartAny \/ TweetStep \/ UserStep

SpecConc == InitConc /\ [][NextConc]_vars

\* ==================================================================== claims

\* The call that has just ended, its input and the store it found.
Ended == pc = "returned"

Raw == pending[1].raw

SaveRts == pending[1].save_rts

StoreUnchanged == tweets = before[1].tweets /\ users = before[1].users

\* A status the feed contract admits: every key read is present, both dates
\* parse, no required value is null.
ValidStatus(raw) == TweetStorable(raw) /\ UserStorable(raw)

TweetRows(T, id) == {r \in T : r.tweet_id = id}

UserRows(U, id) == {r \in U : r.user_id = id}

Exceptions ==
    {"KeyError", "TypeError", "AttributeError", "IntegrityError",
     "MultipleObjectsReturned"}

\* C1: a call with save_rts false on a valid status whose retweeted-status
\* id is not null returns nothing and leaves both tables as they were.
C1_RetweetSkipped ==
    (Ended /\ ~SaveRts /\ ValidStatus(Raw) /\ RetweetedStatus(Raw).id # None)
        => (result = "nothing" /\ StoreUnchanged)

\* C2: the tweet table holds exactly one row for each tweet id a call that
\* was not skipped ingested, and no other row; the same for the user table;
\* a call never removes a row or changes a row's primary key; a valid
\* original whose two ids are both new adds exactly one row to each table.
C2_OneRowPerIngestedId ==
    /\ {r.tweet_id : r \in tweets} = {<<i>> : i \in ingested_tweet_ids}
    /\ {r.user_id : r \in users} = {<<i>> : i \in ingested_user_ids}
    /\ \A r \in tweets : TweetRows(tweets, r.tweet_id) = {r}
    /\ \A r \in users : UserRows(users, r.user_id) = {r}
    /\ Ended =>
        /\ \A r \in before[1].tweets :
               \E n \in tweets : n.id = r.id /\ n.tweet_id = r.tweet_id
        /\ \A r \in before[1].users :
               \E n \in users : n.id = r.id /\ n.user_id = r.user_id
        /\ ( /\ ValidStatus(Raw)
             /\ RetweetedStatus(Raw).id = None
             /\ TweetRows(before[1].tweets, Raw.id) = {}
             /\ UserRows(before[1].users, Raw.user[1].id) = {} )
           => /\ result = "returned"
              /\ Cardinality(tweets) = Cardinality(before[1].tweets) + 1
              /\ Cardinality(users) = Cardinality(before[1].users) + 1
              /\ Cardinality(TweetRows(tweets, Raw.id)) = 1
              /\ Cardinality(UserRows(users, Raw.user[1].id)) = 1

\* C2 witness: a valid original with a new tweet id and a new user id was
\* ingested into a store that already held other rows.
C2_Witness ==
    /\ Ended
    /\ result = "returned"
    /\ tweet_created = <<TRUE>>
    /\ user_created = <<TRUE>>
    /\ RetweetedStatus(Raw).id = None
    /\ before[1].tweets # {}
    /\ before[1].users # {}

\* C4: the same status with the same flag, ingested a second time right
\* after the first, leaves both tables exactly as the first call left them,
\* and creates nothing when it returns.
C4_Idempotent ==
    (Ended /\ again)
        => /\ StoreUnchanged
           /\ result = "returned"
                => (tweet_created = <<FALSE>> /\ user_created = <<FALSE>>)

\* C4 witness: a second ingest of the same status has returned both records.
C4_Witness == Ended /\ again /\ result = "returned"

\* What the mapped fields of the tweet row must be, read off the input alone.
CleanCount(d, k) ==
    IF k \in DOMAIN d /\ d[k] # None /\ d[k][1] >= 0 THEN d[k] ELSE None

Optional(d, k) == IF k \in DOMAIN d THEN d[k] ELSE None

TweetRowIs(r, raw) ==
    /\ DOMAIN r = TweetFields \cup {"id"}
    /\ r.tweet_id = raw.id
    /\ r.text = raw.text
    /\ r.truncated = raw.truncated
    /\ r.user_id = raw.user[1].id
    /\ r.created_at[1].wall = raw.created_at[1].wall
    /\ \A k \in {"filter_level", "in_reply_to_status_id", "entities"} :
           r[k] = Optional(raw, k)
    /\ \A k \in TweetCountKeys : r[k] = CleanCount(raw, k)
    /\ r.retweeted_status_id =
           IF Optional(raw, "retweeted_status") = None THEN None
           ELSE raw.retweeted_status[1].id

UserRowIs(r, raw_user) ==
    /\ DOMAIN r = UserFields \cup {"id"}
    /\ r.user_id = raw_user.id
    /\ \A k \in {"name", "screen_name", "location", "url", "description",
                 "protected", "verified"} : r[k] = raw_user[k]
    /\ r.created_at[1].wall = raw_user.created_at[1].wall
    /\ \A k \in {"profile_banner_url", "profile_image_url_https",
                 "default_profile", "default_profile_image", "entities"} :
           r[k] = Optional(raw_user, k)
    /\ \A k \in UserCountKeys : r[k] = CleanCount(raw_user, k)

\* C3: when a call that is not skipped finds the tweet id (the user id)
\* already stored and returns, the table still holds exactly one row with
\* that id, it is the row that was there (same primary key), and every
\* mapped field of it has the value the new input gives: an optional field
\* the new input lacks is null, whatever it was before.
C3_FullReplace ==
    (Ended /\ result = "returned")
        => /\ tweet_created = <<FALSE>> =>
                \E r \in tweets :
                    /\ TweetRows(tweets, Raw.id) = {r}
                    /\ TweetRowIs(r, Raw)
                    /\ \E o \in TweetRows(before[1].tweets, Raw.id) :
                           o.id = r.id
           /\ user_created = <<FALSE>> =>
                \E r \in users :
                    /\ UserRows(users, Raw.user[1].id) = {r}
                    /\ UserRowIs(r, Raw.user[1])
                    /\ \E o \in UserRows(before[1].users, Raw.user[1].id) :
                           o.id = r.id

\* C3 witness: a status without filter_level was ingested over a stored
\* tweet that had one and over its stored user, and the field is now null.
C3_Witness ==
    /\ Ended
    /\ result = "returned"
    /\ tweet_created = <<FALSE>>
    /\ user_created = <<FALSE>>
    /\ "filter_level" \notin DOMAIN Raw
    /\ \E o \in before[1].tweets, r \in tweets :
           /\ o.tweet_id = Raw.id
           /\ o.filter_level # None
           /\ r.id = o.id
           /\ r.filter_level = None

\* C5: no stored count is negative, and a call that returns has stored each
\* count of its input unchanged when it is null or not negative, and as
\* null when it is negative.
C5_NoNegativeCount ==
    /\ \A r \in tweets : \A k \in TweetCountKeys :
           r[k] = None \/ r[k][1] >= 0
    /\ \A r \in users : \A k \in UserCountKeys :
           r[k] = None \/ r[k][1] >= 0
    /\ (Ended /\ result = "returned") =>
          /\ \A r \in TweetRows(tweets, Raw.id) : \A k \in TweetCountKeys :
                r[k] = IF Optional(Raw, k) # None /\ Raw[k][1] < 0
                       THEN None ELSE Optional(Raw, k)
          /\ \A r \in UserRows(users, Raw.user[1].id) :
                \A k \in UserCountKeys :
                    r[k] = IF /\ Optional(Raw.user[1], k) # None
                              /\ Raw.user[1][k][1] < 0
                           THEN None ELSE Optional(Raw.user[1], k)

\* C5 witness: a status with a negative count was ingested over a row whose
\* count was positive, and the stored count is now null.
C5_Witness ==
    /\ Ended
    /\ result = "returned"
    /\ \E k \in TweetCountKeys :
           /\ Optional(Raw, k) # None
           /\ Raw[k][1] < 0
           /\ \E o \in TweetRows(before[1].tweets, Raw.id) :
                  o[k] # None /\ o[k][1] > 0
           /\ \A r \in TweetRows(tweets, Raw.id) : r[k] = None

\* The exceptions raised while the input is read, before any store access.
InputErrors == {"KeyError", "TypeError", "AttributeError"}

\* One of the keys the claim lists is absent: user, id, user.id, text,
\* created_at, user.created_at.
MissingRequired(raw) ==
    \/ {"user", "id", "text", "created_at"} \ DOMAIN raw # {}
    \/ /\ "user" \in DOMAIN raw
       /\ raw.user # None
       /\ {"id", "created_at"} \ DOMAIN raw.user[1] # {}

\* C6 as stated: a call on a status that lacks a required key raises,
\* whatever the flag and whether the status is a retweet or not.
C6_MissingKeyAlwaysFails ==
    (Ended /\ MissingRequired(Raw)) => result \in Exceptions

\* C6 amended: a call on a status that lacks a required key raises while the
\* input is read, except that a call that is skipped (save_rts false, a
\* retweeted-status id that is neither null nor 0) and whose "user" key is
\* present returns nothing without reading the other keys.
C6_MissingKeyFailsUnlessSkipped ==
    (Ended /\ MissingRequired(Raw))
        => IF "user" \in DOMAIN Raw /\ Skipped(Raw, SaveRts)
           THEN result = "nothing"
           ELSE result \in InputErrors

\* C6 witness: a skipped retweet without "id" returned nothing while the
\* store held rows.
C6_Witness ==
    /\ Ended
    /\ "id" \notin DOMAIN Raw
    /\ Skipped(Raw, SaveRts)
    /\ result = "nothing"
    /\ tweets # {}

\* C10: a call whose input lacks a key the function reads, or holds a date
\* that does not parse, ends while the input is read and leaves both tables
\* as it found them.
C10_InputFailureWritesNothing ==
    (Ended /\ ~Readable(Raw))
        => /\ result \in InputErrors \cup {"nothing"}
           /\ StoreUnchanged

\* C10 witness: the tweet part of the input was complete, the user part
\* lacked a key, the call raised and the tweet is not in the store.
C10_Witness ==
    /\ Ended
    /\ result = "KeyError"
    /\ TweetRequiredKeys \subseteq DOMAIN Raw
    /\ ~ParseFails(Raw.created_at)
    /\ Raw.id # None
    /\ Raw.user # None
    /\ "name" \notin DOMAIN Raw.user[1]
    /\ TweetRows(tweets, Raw.id) = {}
    /\ tweets # {}

\* The store refuses the tweet (the user) of a readable status.
TweetRefused(raw) == Readable(raw) /\ ~TweetStorable(raw)

UserRefused(raw) == Readable(raw) /\ TweetStorable(raw) /\ ~UserStorable(raw)

UserValuesOk(raw) ==
    \A k \in {"id", "name", "screen_name", "location", "description"} :
        raw.user[1][k] # None

\* C8 as stated: when the user upsert fails the tweet the call wrote stays,
\* and when the tweet upsert fails the user of the call is written all the
\* same.
C8_EitherWriteSurvives ==
    (Ended /\ ~Skipped(Raw, SaveRts))
        => /\ UserRefused(Raw) =>
                (result = "IntegrityError"
                    /\ \E r \in tweets : TweetRowIs(r, Raw))
           /\ (TweetRefused(Raw) /\ UserValuesOk(Raw)) =>
                (result = "IntegrityError"
                    /\ \E u \in users : UserRowIs(u, Raw.user[1]))

\* C8 amended: when the user upsert fails the tweet the call wrote stays and
\* the user table is as before; when the tweet upsert fails the call ends
\* there, before the user upsert, and both tables are as before.
C8_TweetStaysUserNotAttempted ==
    (Ended /\ ~Skipped(Raw, SaveRts))
        => /\ UserRefused(Raw) =>
                /\ result = "IntegrityError"
                /\ \E r \in tweets : TweetRowIs(r, Raw)
                /\ users = before[1].users
           /\ TweetRefused(Raw) =>
                /\ result = "IntegrityError"
                /\ user_created = None
                /\ StoreUnchanged

\* C8 witness: the call created the tweet, the user upsert then failed, and
\* the tweet is in the store with no user row for its author.
C8_Witness ==
    /\ Ended
    /\ UserRefused(Raw)
    /\ result = "IntegrityError"
    /\ tweet_created = <<TRUE>>
    /\ TweetRows(before[1].tweets, Raw.id) = {}
    /\ \E r \in tweets : TweetRowIs(r, Raw)
    /\ UserRows(users, Raw.user[1].id) = {}

\* C7 as stated: the query returns exactly the rows created in [start, end),
\* never a row created at end, and always the rows created at start.
C7_RangeAlwaysHasStart ==
    query # <<>> =>
        LET q == query[1] IN
        /\ q.rows \subseteq tweets
        /\ \A r \in tweets :
               r \in q.rows <=> (q.start <= CreatedAt(r) /\ CreatedAt(r) < q.end)
        /\ \A r \in q.rows : CreatedAt(r) # q.end
        /\ \A r \in tweets : CreatedAt(r) = q.start => r \in q.rows

\* C7 amended: the query returns exactly the rows created in [start, end),
\* never a row created at end, and the rows created at start when
\* start < end (when end <= start it returns nothing).
C7_RangeHalfOpen ==
    query # <<>> =>
        LET q == query[1] IN
        /\ q.rows \subseteq tweets
        /\ \A r \in tweets :
               r \in q.rows <=> (q.start <= CreatedAt(r) /\ CreatedAt(r) < q.end)
        /\ \A r \in q.rows : CreatedAt(r) # q.end
        /\ q.start < q.end =>
               \A r \in tweets : CreatedAt(r) = q.start => r \in q.rows
        /\ q.end <= q.start => q.rows = {}

\* C7 witness: a query over a store with a tweet created at start and one
\* created at end returned the first and not the second.
C7_Witness ==
    /\ query # <<>>
    /\ query[1].start < query[1].end
    /\ \E r \in query[1].rows : CreatedAt(r) = query[1].start
    /\ \E r \in tweets \ query[1].rows : CreatedAt(r) = query[1].end

\* C9: with two calls interleaved statement by statement, no tweet id ever
\* has two rows; a caller whose INSERT the unique constraint refused goes on
\* to overwrite and save the row (it does not end without writing); and
\* once both calls for one tweet id are done, the row holds the complete
\* field-set of one of the two.
C9_RaceResolved ==
    /\ \A r \in tweets : TweetRows(tweets, r.tweet_id) = {r}
    /\ \A p \in Procs :
           /\ procs[p].pc # "failed"
           /\ ("tweet" \in procs[p].rejected
                 /\ procs[p].pc \in {"user_get", "user_create", "user_save",
                                     "user_refetch", "done"})
                => "tweet" \in procs[p].saved
    /\ (\A p \in Procs : procs[p].pc = "done")
         => \A p \in Procs :
                \E q \in Procs, r \in tweets :
                    /\ r.tweet_id = procs[p].raw[1].id
                    /\ procs[q].raw[1].id = procs[p].raw[1].id
                    /\ TweetRowIs(r, procs[q].raw[1])

\* C9 witness: both calls ingested the same new tweet id with different
\* texts, the INSERT of one was refused, and both are done.
C9_Witness ==
    /\ \A p \in Procs : procs[p].pc = "done"
    /\ procs[1].raw[1].id = procs[2].raw[1].id
    /\ procs[1].raw[1].text # procs[2].raw[1].text
    /\ \E p \in Procs : "tweet" \in procs[p].rejected

====
